---- MODULE Spec2Model ----
(***************************************************************************)
(* A model of scripts/monitor_cpu.py: the start-up checks of main(), the   *)
(* poll loop of parse_pm_table(), the SMN register reads of getCCDCount()  *)
(* and the decoding of the PM table buffer.                                *)
(*                                                                         *)
(* Representation.  A register value is the set of the positions of its 1  *)
(* bits (Python integers are unbounded, so no width is imposed on the      *)
(* results of the operations).  A float decoded from the PM table is an    *)
(* integer; the one quotient the code forms (line 164) is kept exact as a  *)
(* pair <<numerator, denominator>>; NaN and the infinities are not in the  *)
(* input domain.  A raised Python exception ends the program: pc becomes   *)
(* "raised" and err names the exception.                                   *)
(***************************************************************************)
EXTENDS Integers, Sequences, FiniteSets, TLC

VARIABLES
    pc,            \* position in main() / parse_pm_table()
    err,           \* the exception that ended the program, "" if none
    sudoUser,      \* environment: SUDO_USER is set
    euid,          \* environment: effective user id
    verFile,       \* environment: .../version is a file
    pmFile,        \* environment: .../pm_table is a file
    checks,        \* history: the start-up checks evaluated, with their results
    entered,       \* history: parse_pm_table() has been called
    fileOps,       \* history: accesses to the pm_table and smn files in this tick
    pm,            \* parse_pm_table: the buffer returned by read_pm_table()
    smnLog,        \* history: the read_smn_addr calls of the running getCCDCount
    value1, value2, value3, value4, ccdCount,   \* locals of getCCDCount
    ccds, cores,   \* parse_pm_table: results of getCCDCount(), getCoreCount()
    i, totalA, peakFreq, peakActivity,          \* parse_pm_table: the core scan
    tdcU, edcU, coupledMode                     \* parse_pm_table: derived fields

vars == <<pc, err, sudoUser, euid, verFile, pmFile, checks, entered, fileOps, pm, smnLog,
          value1, value2, value3, value4, ccdCount, ccds, cores,
          i, totalA, peakFreq, peakActivity, tdcU, edcU, coupledMode>>

envVars == <<sudoUser, euid, verFile, pmFile>>
ccdVars == <<smnLog, value1, value2, value3, value4, ccdCount>>
scanVars == <<i, totalA, peakFreq, peakActivity>>
fieldVars == <<tdcU, edcU, coupledMode>>

-----------------------------------------------------------------------------
(* Bounds of the input domain *)

\* Core slots 0 .. VarCores-1 of a PM table vary freely; the other slots
\* report frequency 0 and activity 0, as the slots of disabled cores do.
VarCores == 2

-----------------------------------------------------------------------------
(* Bit operations on register values *)

ShiftRight(w, n) == {b - n : b \in {x \in w : x >= n}}
BitAnd(a, b) == a \cap b
BitOr(a, b) == a \cup b
TimesFour(w) == {b + 2 : b \in w}
Bit(k) == {k}
Zero == {}
Mask_ff == 0..7
Mask_3f == 0..5

-----------------------------------------------------------------------------
(* read_smn_addr and getCCDCount *)

SMN_PATH == "smn"
PM_PATH == "pm_table"

ADDR_5D21A == \h5D21A
ADDR_5D21B == \h5D21B
ADDR_5D21C == \h5D21C

\* The addresses getCCDCount reads, in the order of lines 86-88.
SmnAddrs_swapped == <<ADDR_5D21B, ADDR_5D21A, ADDR_5D21C>>
SmnAddrs == <<ADDR_5D21A, ADDR_5D21B, ADDR_5D21C>>

\* What one call of read_smn_addr can meet:
\*   "ok"          the write stores 4 bytes and 9 characters of hex come back
\*   "short_write" write_file32 returns False (fp.write did not return 4)
\*   "short_read"  read_file_str returns False (fewer than 9 characters)
\*   "oserror"     open() of the smn file raises OSError
\*   "badtext"     the 9 characters are not a hexadecimal numeral: int() raises
SoftKinds == {"short_write", "short_read"}
RaiseKinds == {"oserror", "badtext"}

SmnOutcomes(vals, kinds) ==
    [kind : {"ok"}, val : vals] \cup [kind : kinds, val : {Zero}]

\* read_smn_addr(addr) under outcome o: the exception it raises ("" if none)
\* and the value it returns.
read_smn_addr_propagate(o) ==
    CASE o.kind = "ok"          -> [raise |-> "", ret |-> o.val]
      [] o.kind = "short_write" -> [raise |-> "RegisterReadError", ret |-> Zero]
      [] o.kind = "short_read"  -> [raise |-> "RegisterReadError", ret |-> Zero]
      [] o.kind = "oserror"     -> [raise |-> "OSError", ret |-> Zero]
      [] o.kind = "badtext"     -> [raise |-> "ValueError", ret |-> Zero]

read_smn_addr(o) ==
    CASE o.kind = "ok"          -> [raise |-> "", ret |-> o.val]
      [] o.kind = "short_write" -> [raise |-> "", ret |-> Zero]
      [] o.kind = "short_read"  -> [raise |-> "", ret |-> Zero]
      [] o.kind = "oserror"     -> [raise |-> "OSError", ret |-> Zero]
      [] o.kind = "badtext"     -> [raise |-> "ValueError", ret |-> Zero]

\* The operations read_smn_addr performs on the smn file under outcome o:
\* the address is written first; the value is read back only when the write
\* returned True (lines 55-59).
SmnFileOps(addr, o) ==
    CASE o.kind = "oserror"     -> <<>>
      [] o.kind = "short_write" -> << <<"write", SMN_PATH, addr>> >>
      [] OTHER -> << <<"write", SMN_PATH, addr>>, <<"read", SMN_PATH, addr>> >>

CCDValue1_shift21(r) == BitAnd(ShiftRight(r, 21), Mask_ff)
CCDValue1(r) == BitAnd(ShiftRight(r, 22), Mask_ff)
CCDValue2(r) == BitAnd(ShiftRight(r, 30), Mask_ff)
CCDValue3(r) == BitAnd(r, Mask_3f)

CCDValue4_unscaled(v2, v3) == BitOr(v2, v3)
CCDValue4(v2, v3) == BitOr(v2, TimesFour(v3))

\* Lines 92-118: the count from value1 and value4.
CCDCountOf(v1, v4) ==
    LET first == IF BitAnd(v1, Bit(0)) = Zero \/ BitAnd(v4, Bit(0)) # Zero
                 THEN 0 ELSE 1
        Inc(c, k) == IF BitAnd(Bit(k), v1) # Zero /\ BitAnd(Bit(k), v4) = Zero
                     THEN c + 1 ELSE c
    IN  Inc(Inc(Inc(Inc(Inc(Inc(Inc(first, 31), 30), 29), 28), 27), 26), 25)

\* One call of read_smn_addr from getCCDCount (lines 86-88): the k-th call
\* reads SmnAddrs[k] and its result is shifted and masked into value<k>.
ReadSmnAddr(outcomes) ==
    /\ pc = "getCCDCount"
    /\ Len(smnLog) < 3
    /\ \E o \in outcomes :
         LET k == Len(smnLog) + 1
             addr == SmnAddrs[k]
             r == read_smn_addr(o)
         IN  /\ fileOps' = fileOps \o SmnFileOps(addr, o)
             /\ smnLog' = Append(smnLog, [addr |-> addr, kind |-> o.kind, ret |-> r.ret])
             /\ IF r.raise # ""
                THEN /\ pc' = "raised"
                     /\ err' = r.raise
                     /\ UNCHANGED <<value1, value2, value3>>
                ELSE /\ pc' = pc
                     /\ err' = err
                     /\ value1' = IF k = 1 THEN CCDValue1(r.ret) ELSE value1
                     /\ value2' = IF k = 2 THEN CCDValue2(r.ret) ELSE value2
                     /\ value3' = IF k = 3 THEN CCDValue3(r.ret) ELSE value3
    /\ UNCHANGED <<envVars, checks, entered, pm, value4, ccdCount, ccds, cores,
                   scanVars, fieldVars>>

\* Lines 90-116: value4 and the count.
CcdCount ==
    /\ pc = "getCCDCount"
    /\ Len(smnLog) = 3
    /\ value4' = CCDValue4(value2, value3)
    /\ ccdCount' = CCDCountOf(value1, value4')
    /\ pc' = "ccd_return"
    /\ UNCHANGED <<err, envVars, checks, entered, fileOps, pm, smnLog,
                   value1, value2, value3, ccds, cores, scanVars, fieldVars>>

\* getCoreCount (lines 120-122).
getCoreCount == 8

\* Line 118 and lines 132-138: getCCDCount returns, its locals are gone;
\* parse_pm_table stores the count, takes the core count and resets the scan.
\* peakActivity is not assigned by line 138.
CcdReturn ==
    /\ pc = "ccd_return"
    /\ ccds' = ccdCount
    /\ cores' = getCoreCount
    /\ smnLog' = <<>>
    /\ value1' = Zero /\ value2' = Zero /\ value3' = Zero /\ value4' = Zero
    /\ ccdCount' = 0
    /\ totalA' = 0 /\ peakFreq' = 0 /\ i' = 0
    /\ pc' = "cores"
    /\ UNCHANGED <<err, envVars, checks, entered, fileOps, pm, peakActivity, fieldVars>>

-----------------------------------------------------------------------------
(* The PM table buffer and read_float *)

OFF_pptW  == \h000
OFF_pptU  == \h004
OFF_tdcA  == \h008
OFF_tdcU  == \h00C
OFF_tjMax == \h010
OFF_tempC == \h014
OFF_edcA  == \h020
OFF_edcU  == \h024
OFF_CorP  == \h060
OFF_SoCP  == \h064
OFF_fclk  == \h118
OFF_uclk  == \h128
OFF_mclk  == \h138
OFF_vddp  == \h1F4
OFF_vddg  == \h1F8
OFF_freq  == \h30C
OFF_activity == \h32C

CoreSlots == 0 .. (getCoreCount - 1)

FieldOffsets ==
    {OFF_pptW, OFF_pptU, OFF_tdcA, OFF_tdcU, OFF_tjMax, OFF_tempC, OFF_edcA,
     OFF_edcU, OFF_CorP, OFF_SoCP, OFF_fclk, OFF_uclk, OFF_mclk, OFF_vddp, OFF_vddg}
    \cup {OFF_freq + c * 4 : c \in CoreSlots}
    \cup {OFF_activity + c * 4 : c \in CoreSlots}

\* A buffer is its length in bytes and the float stored at each offset the
\* program reads (what lies at an offset at or past len is never returned
\* by read_float below).
EmptyTable == [len |-> 0, cell |-> [o \in FieldOffsets |-> 0]]

\* len(buffer[lo:hi]) for 0 <= lo <= hi, as Python slices.
SliceLen(buffer, lo, hi) ==
    IF lo >= buffer.len THEN 0
    ELSE (IF hi <= buffer.len THEN hi ELSE buffer.len) - lo

\* read_float (lines 74-75): struct.unpack raises struct.error unless the
\* slice holds exactly 4 bytes.
read_float_padded(buffer, offset) ==
    [ok |-> TRUE,
     v  |-> IF SliceLen(buffer, offset, offset + 4) = 4 THEN buffer.cell[offset] ELSE 0]

read_float(buffer, offset) ==
    IF SliceLen(buffer, offset, offset + 4) = 4
    THEN [ok |-> TRUE, v |-> buffer.cell[offset]]
    ELSE [ok |-> FALSE, v |-> 0]

-----------------------------------------------------------------------------
(* Exact quotients *)

FromInt(x) == <<x, 1>>
RatDiv(a, n) == <<a[1], a[2] * n>>
RatScale(x, a) == <<x * a[1], a[2]>>
RatLt(a, b) == a[1] * b[2] < b[1] * a[2]
RatEq(a, b) == a[1] * b[2] = b[1] * a[2]

-----------------------------------------------------------------------------
(* parse_pm_table *)

Unbound == [bound |-> FALSE, val |-> 0]
Bound(x) == [bound |-> TRUE, val |-> x]

\* Lines 140-147 for core slot idx, on the scan state s and the two floats
\* read: the frequency in MHz, the running peak and its activity, the sum.
ScanStep(s, rawFreq, activity) ==
    LET freq == rawFreq * 1000
    IN  [peakFreq     |-> IF s.peakFreq < freq THEN freq ELSE s.peakFreq,
         peakActivity |-> IF s.peakFreq < freq THEN Bound(activity) ELSE s.peakActivity,
         totalA       |-> s.totalA + activity]

\* read_pm_table (lines 67-72, called at line 128): the whole file, or
\* OSError when the file cannot be opened.
ReadPmTable(tables) ==
    /\ pc = "tick"
    /\ fileOps' = Append(fileOps, <<"read", PM_PATH, 0>>)
    /\ \E opened \in BOOLEAN, b \in tables :
         IF opened
         THEN pm' = b /\ pc' = "getCCDCount" /\ err' = err
         ELSE pm' = pm /\ pc' = "raised" /\ err' = "OSError"
    /\ UNCHANGED <<envVars, checks, entered, ccdVars, ccds, cores, scanVars, fieldVars>>

\* One iteration of the loop of lines 139-153.
CoreScan ==
    /\ pc = "cores"
    /\ i < cores
    /\ LET f == read_float(pm, OFF_freq + i * 4)
           a == read_float(pm, OFF_activity + i * 4)
           s == ScanStep([peakFreq |-> peakFreq, peakActivity |-> peakActivity,
                          totalA |-> totalA], f.v, a.v)
       IN  IF f.ok /\ a.ok
           THEN /\ peakFreq' = s.peakFreq
                /\ peakActivity' = s.peakActivity
                /\ totalA' = s.totalA
                /\ i' = i + 1
                /\ pc' = pc
                /\ err' = err
           ELSE /\ pc' = "raised"
                /\ err' = "struct.error"
                /\ UNCHANGED scanVars
    /\ UNCHANGED <<envVars, checks, entered, fileOps, pm, ccdVars, ccds, cores, fieldVars>>

\* Lines 164-169: the EDC usage scaled by the mean activity, not below tdcU.
EdcUsed_unclamped(raw, total, n, tdc) ==
    RatScale(raw, RatDiv(RatDiv(FromInt(total), n), 100))

EdcUsed(raw, total, n, tdc) ==
    LET scaled == RatScale(raw, RatDiv(RatDiv(FromInt(total), n), 100))
    IN  IF RatLt(scaled, FromInt(tdc)) THEN FromInt(tdc) ELSE scaled

PowerOffsets ==
    {OFF_pptW, OFF_pptU, OFF_tdcA, OFF_tdcU, OFF_tjMax, OFF_tempC, OFF_edcA,
     OFF_edcU, OFF_CorP, OFF_SoCP}

\* Lines 155-178, after the loop ends: the power fields, the EDC floor and
\* the three percentages, whose divisions raise ZeroDivisionError on a 0.0
\* limit.
PowerSection ==
    /\ pc = "cores"
    /\ ~(i < cores)
    /\ IF \E o \in PowerOffsets : ~read_float(pm, o).ok
       THEN /\ pc' = "raised" /\ err' = "struct.error"
            /\ UNCHANGED <<tdcU, edcU>>
       ELSE /\ tdcU' = read_float(pm, OFF_tdcU).v
            /\ edcU' = EdcUsed(read_float(pm, OFF_edcU).v, totalA, cores, tdcU')
            /\ IF \/ read_float(pm, OFF_pptW).v = 0
                  \/ read_float(pm, OFF_tdcA).v = 0
                  \/ read_float(pm, OFF_edcA).v = 0
               THEN pc' = "raised" /\ err' = "ZeroDivisionError"
               ELSE pc' = "memory" /\ err' = err
    /\ UNCHANGED <<envVars, checks, entered, fileOps, pm, ccdVars, ccds, cores,
                   scanVars, coupledMode>>

\* Lines 183-186.
CoupledModeOf_approx(uclkMHz, mclkMHz) ==
    IF uclkMHz - mclkMHz \in -1..1 THEN "ON" ELSE "OFF"

CoupledModeOf(uclkMHz, mclkMHz) ==
    IF uclkMHz = mclkMHz THEN "ON" ELSE "OFF"

MemoryOffsets == {OFF_fclk, OFF_uclk, OFF_mclk, OFF_vddp, OFF_vddg}

\* Lines 180-198.
MemorySection ==
    /\ pc = "memory"
    /\ IF \E o \in MemoryOffsets : ~read_float(pm, o).ok
       THEN pc' = "raised" /\ err' = "struct.error" /\ coupledMode' = coupledMode
       ELSE /\ coupledMode' = CoupledModeOf(read_float(pm, OFF_uclk).v,
                                            read_float(pm, OFF_mclk).v)
            /\ pc' = "sleep" /\ err' = err
    /\ UNCHANGED <<envVars, checks, entered, fileOps, pm, ccdVars, ccds, cores,
                   scanVars, tdcU, edcU>>

\* Line 200 and the jump back to line 125.  Every local but peakActivity is
\* assigned again before the next tick reads it (pm: 128, ccds: 132,
\* cores: 133, totalA, peakFreq, i: 138, tdcU: 160, edcU: 164,
\* coupledMode: 184/186), so those are dropped here.
Sleep ==
    /\ pc = "sleep"
    /\ pc' = "tick"
    /\ pm' = EmptyTable
    /\ fileOps' = <<>>
    /\ ccds' = 0 /\ cores' = 0
    /\ i' = 0 /\ totalA' = 0 /\ peakFreq' = 0
    /\ tdcU' = 0 /\ edcU' = FromInt(0) /\ coupledMode' = ""
    /\ UNCHANGED <<err, envVars, checks, entered, ccdVars, peakActivity>>

-----------------------------------------------------------------------------
(* main *)

is_root == sudoUser \/ euid = 0
driver_loaded == verFile
pm_table_supported == pmFile

\* Lines 203-205.
MainCheckRoot ==
    /\ pc = "main_root"
    /\ checks' = Append(checks, <<"is_root", is_root>>)
    /\ pc' = IF is_root THEN "main_driver" ELSE "exit"
    /\ UNCHANGED <<err, envVars, entered, fileOps, pm, ccdVars, ccds, cores,
                   scanVars, fieldVars>>

\* Lines 207-209.
MainCheckDriver_ignored ==
    /\ pc = "main_driver"
    /\ checks' = Append(checks, <<"driver_loaded", driver_loaded>>)
    /\ pc' = "main_pm"
    /\ UNCHANGED <<err, envVars, entered, fileOps, pm, ccdVars, ccds, cores,
                   scanVars, fieldVars>>

MainCheckDriver ==
    /\ pc = "main_driver"
    /\ checks' = Append(checks, <<"driver_loaded", driver_loaded>>)
    /\ pc' = IF driver_loaded THEN "main_pm" ELSE "exit"
    /\ UNCHANGED <<err, envVars, entered, fileOps, pm, ccdVars, ccds, cores,
                   scanVars, fieldVars>>

\* Lines 211-215.
MainCheckPmTable ==
    /\ pc = "main_pm"
    /\ checks' = Append(checks, <<"pm_table_supported", pm_table_supported>>)
    /\ pc' = IF pm_table_supported THEN "tick" ELSE "exit"
    /\ entered' = pm_table_supported
    /\ UNCHANGED <<err, envVars, fileOps, pm, ccdVars, ccds, cores,
                   scanVars, fieldVars>>

Init ==
    /\ pc = "main_root"
    /\ err = ""
    /\ sudoUser \in BOOLEAN
    /\ euid \in {0, 1000}
    /\ verFile \in BOOLEAN
    /\ pmFile \in BOOLEAN
    /\ checks = <<>>
    /\ entered = FALSE
    /\ fileOps = <<>>
    /\ pm = EmptyTable
    /\ smnLog = <<>>
    /\ value1 = Zero /\ value2 = Zero /\ value3 = Zero /\ value4 = Zero
    /\ ccdCount = 0
    /\ ccds = 0 /\ cores = 0
    /\ i = 0 /\ totalA = 0 /\ peakFreq = 0
    /\ peakActivity = Unbound
    /\ tdcU = 0 /\ edcU = FromInt(0) /\ coupledMode = ""

-----------------------------------------------------------------------------
(* Input domains *)

FreqVals == {0, 3, 4}          \* raw per-core frequency (GHz)
ActVals == {4, 40}             \* per-core activity (%)
TdcVals == {10, 30}            \* tdcU (A)
EdcRawVals == {100}            \* the float at 0x024
ClkVals == {1599, 1600}        \* uclkMHz, mclkMHz
PptLimitVals == {0, 142}       \* pptW

\* The buffer of the given length whose first VarCores core slots hold the
\* <<frequency, activity>> pairs of fa.
MkTable(len, fa, tdc, edcRaw, uclk, mclk, pptLimit) ==
    [len  |-> len,
     cell |-> [o \in FieldOffsets |->
        CASE o = OFF_pptW -> pptLimit
          [] o = OFF_pptU -> 60
          [] o = OFF_tdcA -> 95
          [] o = OFF_tdcU -> tdc
          [] o = OFF_tjMax -> 95
          [] o = OFF_tempC -> 50
          [] o = OFF_edcA -> 140
          [] o = OFF_edcU -> edcRaw
          [] o = OFF_CorP -> 40
          [] o = OFF_SoCP -> 10
          [] o = OFF_fclk -> 1600
          [] o = OFF_uclk -> uclk
          [] o = OFF_mclk -> mclk
          [] o = OFF_vddp -> 1
          [] o = OFF_vddg -> 1
          [] o >= OFF_freq /\ o < OFF_activity ->
                LET c == (o - OFF_freq) \div 4
                IN  IF c < VarCores THEN fa[c][1] ELSE 0
          [] OTHER ->
                LET c == (o - OFF_activity) \div 4
                IN  IF c < VarCores THEN fa[c][2] ELSE 0]]

\* The smallest length that holds every field: the last activity slot ends here.
FullLen == OFF_activity + getCoreCount * 4

DefaultCores == [c \in 0 .. (VarCores - 1) |-> <<4, 40>>]
DefaultTable == MkTable(FullLen, DefaultCores, 10, 100, 1600, 1600, 142)

FullTables ==
    {MkTable(FullLen, fa, tdc, edcRaw, uclk, mclk, pptLimit) :
        fa \in [0 .. (VarCores - 1) -> FreqVals \X ActVals],
        tdc \in TdcVals, edcRaw \in EdcRawVals,
        uclk \in ClkVals, mclk \in ClkVals, pptLimit \in PptLimitVals}

\* Buffers of other lengths: empty, ending inside the frequency slots, inside
\* the activity slots, one byte short, and longer than needed.
OtherLens == {0, OFF_freq + 2, OFF_activity + 4, FullLen - 1, FullLen + 4}
SizedTables ==
    {MkTable(len, DefaultCores, 10, 100, 1600, 1600, 142) : len \in OtherLens}

PmTables == FullTables \cup SizedTables

SmnBits == {0, 22, 29, 30, 31}
SmnAll == SmnOutcomes(SUBSET SmnBits, SoftKinds \cup RaiseKinds)
SmnFew == SmnOutcomes({Bit(22)}, {"short_read", "oserror"})

-----------------------------------------------------------------------------
(* Specifications *)

Next(tables, outcomes) ==
    \/ MainCheckRoot
    \/ MainCheckDriver
    \/ MainCheckPmTable
    \/ ReadPmTable(tables)
    \/ ReadSmnAddr(outcomes)
    \/ CcdCount
    \/ CcdReturn
    \/ CoreScan
    \/ PowerSection
    \/ MemorySection
    \/ Sleep

\* The program over the PM tables of PmTables.
NextPm == Next(PmTables, SmnFew)
Spec == Init /\ [][NextPm]_vars

\* The program over the register values and read failures of SmnAll.
NextSmn == Next({DefaultTable}, SmnAll)
SpecSmn == Init /\ [][NextSmn]_vars

-----------------------------------------------------------------------------
(* Claims about getCCDCount, checked under SpecSmn *)

\* The value read_smn_addr returned for the k-th address of the running call.
SmnRet(k) == smnLog[k].ret

\* The masks of step 7 of the documented algorithm, as bit positions:
\* 0x80000000 down to 0x01000000.
C1_Masks == <<31, 30, 29, 28, 27, 26, 25, 24>>

RECURSIVE C1_MaskCount(_, _, _)
C1_MaskCount(v1, v4, n) ==
    IF n = 0 THEN 0
    ELSE C1_MaskCount(v1, v4, n - 1)
         + (IF C1_Masks[n] \in v1 /\ C1_Masks[n] \notin v4 THEN 1 ELSE 0)

C1_DocumentedCount(r1, r2, r3) ==
    LET v1 == BitAnd(ShiftRight(r1, 22), 0..7)
        v2 == BitAnd(ShiftRight(r2, 30), 0..7)
        v3 == BitAnd(r3, 0..5)
        v4 == BitOr(v2, TimesFour(v3))
    IN  (IF 0 \in v1 /\ 0 \notin v4 THEN 1 ELSE 0)
        + C1_MaskCount(v1, v4, Len(C1_Masks))

\* C1: for every triple of values returned by the reads of 0x5D21A, 0x5D21B
\* and 0x5D21C, the count getCCDCount returns is the count of the documented
\* algorithm (bit 0 test, then the eight masks 0x80000000 .. 0x01000000).
C1_CountMatchesDocumentedAlgorithm ==
    pc = "ccd_return" =>
        ccdCount = C1_DocumentedCount(SmnRet(1), SmnRet(2), SmnRet(3))

C1_Witness ==
    /\ pc = "ccd_return"
    /\ \A k \in 1..3 : smnLog[k].kind = "ok"
    /\ SmnRet(1) = {22, 29, 31} /\ SmnRet(2) = {31} /\ SmnRet(3) = {0}
    /\ ccdCount = 1

IsSmnWrite(op) == op[1] = "write" /\ op[2] = "smn"
IsSmnRead(op) == op[1] = "read" /\ op[2] = "smn"
OpAddr(op) == op[3]

C9_CountIsBit22AndNotBit30 ==
    pc = "ccd_return" =>
        /\ value1 \subseteq 0..7
        /\ ccdCount = (IF 22 \in SmnRet(1) /\ 30 \notin SmnRet(2) THEN 1 ELSE 0)

C9_Witness ==
    /\ pc = "ccd_return"
    /\ SmnRet(1) = {22, 29, 30, 31}
    /\ SmnRet(2) = {0, 22, 29, 31}
    /\ SmnRet(3) = {0, 22, 29, 30, 31}
    /\ ccdCount = 1

-----------------------------------------------------------------------------
(* Claims about the decoding of the PM table, checked under Spec *)

Frequency(buffer, c) == buffer.cell[\h30C + c * 4] * 1000
Activity(buffer, c) == buffer.cell[\h32C + c * 4]

RECURSIVE C3_MaxFrequency(_, _)
C3_MaxFrequency(buffer, n) ==
    IF n = 1 THEN Frequency(buffer, 0)
    ELSE LET m == C3_MaxFrequency(buffer, n - 1)
             f == Frequency(buffer, n - 1)
         IN  IF f > m THEN f ELSE m

C3_FirstMaxCore(buffer, n) ==
    CHOOSE k \in 0 .. (n - 1) :
        /\ Frequency(buffer, k) = C3_MaxFrequency(buffer, n)
        /\ \A j \in 0 .. (k - 1) : Frequency(buffer, j) < C3_MaxFrequency(buffer, n)

ScanDone == pc = "cores" /\ i = cores

\* C3: after the per-core scan the peak frequency is the maximum of
\* frequency[i] over the core slots and the peak activity is the activity of
\* the smallest core index whose frequency is that maximum.
C3_PeakIsFirstMaximum ==
    ScanDone =>
        /\ peakFreq = C3_MaxFrequency(pm, cores)
        /\ peakActivity = Bound(Activity(pm, C3_FirstMaxCore(pm, cores)))

\* The same statement restricted to buffers with a frequency above 0, which
\* the scan does satisfy.
C3_PeakIsFirstMaximumWhenPositive ==
    (ScanDone /\ C3_MaxFrequency(pm, cores) > 0) =>
        /\ peakFreq = C3_MaxFrequency(pm, cores)
        /\ peakActivity = Bound(Activity(pm, C3_FirstMaxCore(pm, cores)))

RECURSIVE C4_SumActivity(_, _)
C4_SumActivity(buffer, n) ==
    IF n = 0 THEN 0 ELSE C4_SumActivity(buffer, n - 1) + Activity(buffer, n - 1)

C4_EdcRaw(buffer, n) == <<buffer.cell[\h024] * C4_SumActivity(buffer, n), n * 100>>
C4_Max(a, b) == IF RatLt(a, b) THEN b ELSE a

PowerDecoded ==
    \/ pc \in {"memory", "sleep"}
    \/ pc = "raised" /\ err = "ZeroDivisionError"

RECURSIVE C5_FirstTickScan(_, _)
C5_FirstTickScan(buffer, n) ==
    IF n = 0 THEN [peakFreq |-> 0, peakActivity |-> Unbound, totalA |-> 0]
    ELSE ScanStep(C5_FirstTickScan(buffer, n - 1),
                  buffer.cell[OFF_freq + (n - 1) * 4],
                  buffer.cell[OFF_activity + (n - 1) * 4])

C5_FirstTickDecode(buffer, n) ==
    LET s == C5_FirstTickScan(buffer, n)
    IN  [peakFreq |-> s.peakFreq, peakActivity |-> s.peakActivity,
         totalA |-> s.totalA,
         tdcU |-> buffer.cell[OFF_tdcU],
         edcU |-> EdcUsed(buffer.cell[OFF_edcU], s.totalA, n, buffer.cell[OFF_tdcU]),
         coupledMode |-> CoupledModeOf(buffer.cell[OFF_uclk], buffer.cell[OFF_mclk])]

\* C5: what a tick decodes is a function of that tick's buffer and core
\* count alone: at the end of any tick the decoded values are those the
\* first tick of a run yields for the same buffer.
C5_DecodeIsStateless ==
    pc = "sleep" =>
        [peakFreq |-> peakFreq, peakActivity |-> peakActivity, totalA |-> totalA,
         tdcU |-> tdcU, edcU |-> edcU, coupledMode |-> coupledMode]
            = C5_FirstTickDecode(pm, cores)

\* All decoded values but peakActivity do satisfy the statement.
C5_StatelessButPeakActivity ==
    pc = "sleep" =>
        [peakFreq |-> peakFreq, totalA |-> totalA,
         tdcU |-> tdcU, edcU |-> edcU, coupledMode |-> coupledMode]
            = [f \in {"peakFreq", "totalA", "tdcU", "edcU", "coupledMode"} |->
                   C5_FirstTickDecode(pm, cores)[f]]

\* C6: a buffer shorter than 0x32C + coreCount*4 is never decoded to the
\* end: every core slot scanned lies inside the buffer, the scan of a short
\* buffer ends in struct.error, and no tick on it reaches the power or the
\* memory section.
C6_ShortBufferNeverDecoded ==
    /\ (pc = "cores" /\ i > 0) => \h32C + i * 4 <= pm.len
    /\ pc \in {"memory", "sleep"} => pm.len >= \h32C + cores * 4
    /\ (pc = "raised" /\ err = "ZeroDivisionError") => pm.len >= \h32C + cores * 4
    /\ (pc = "raised" /\ err = "struct.error") =>
          /\ i < cores
          /\ pm.len < \h32C + cores * 4
          /\ pm.len < \h32C + i * 4 + 4

\* A buffer ending inside the activity slots: core 0 is decoded, core 1 raises.
C6_Witness ==
    /\ pc = "raised" /\ err = "struct.error"
    /\ i = 1
    /\ pm.len = \h330

\* C7: coupled mode is ON exactly when the float at 0x128 equals the float
\* at 0x138, and OFF for any two unequal values.
C7_CoupledIffEqual ==
    pc = "sleep" =>
        /\ coupledMode \in {"ON", "OFF"}
        /\ coupledMode = "ON" <=> pm.cell[\h128] = pm.cell[\h138]

\* Two clocks that differ by the smallest step of the domain.
C7_Witness ==
    /\ pc = "sleep"
    /\ pm.cell[\h128] = 1600 /\ pm.cell[\h138] = 1599
    /\ coupledMode = "OFF"

-----------------------------------------------------------------------------
(* Claim about main, checked under Spec *)

CheckNames == <<"is_root", "driver_loaded", "pm_table_supported">>
LoopPositions == {"tick", "getCCDCount", "ccd_return", "cores", "memory", "sleep"}

\* C10: the PM table and the SMN file are accessed only after is_root,
\* driver_loaded and pm_table_supported have succeeded, evaluated in that
\* order; a failed check ends the program with no access to either file;
\* once the poll loop is entered the program never returns, it ends only by
\* a raised exception.
C10_ChecksGuardTheLoop ==
    /\ Len(checks) <= 3
    /\ \A k \in 1..Len(checks) :
          /\ checks[k][1] = CheckNames[k]
          /\ k < Len(checks) => checks[k][2]
    /\ (Len(checks) >= 1 => checks[1][2] = (sudoUser \/ euid = 0))
    /\ (Len(checks) >= 2 => checks[2][2] = verFile)
    /\ (Len(checks) >= 3 => checks[3][2] = pmFile)
    /\ (fileOps # <<>> \/ entered \/ pc \in LoopPositions \/ pc = "raised") =>
          /\ Len(checks) = 3
          /\ \A k \in 1..3 : checks[k][2]
    /\ pc = "exit" =>
          /\ ~entered
          /\ fileOps = <<>>
          /\ ~checks[Len(checks)][2]
    /\ entered => pc \in LoopPositions \cup {"raised"}

\* A tick that has read the PM table and the three registers.
C10_Witness ==
    /\ pc = "sleep"
    /\ Len(fileOps) = 7
    /\ checks = << <<"is_root", TRUE>>, <<"driver_loaded", TRUE>>,
                   <<"pm_table_supported", TRUE>> >>

====
